---- MODULE Spec2Model ----
(***************************************************************************)
(* The weekly schedule resolution of netatmoapi (object/_data.py):         *)
(* Timepoint.get_datetime, Timetable.get_week, Timetable.get_period,       *)
(* Timetable.get_by_datetime and Schedule.get_zone_by_datetime; and the    *)
(* Objects they are built on (object/_common.py): construction from a      *)
(* decoded JSON document, obj[key], the typed getters, the id properties,  *)
(* get_id of the collections and copy; and the authentication of the       *)
(* Netatmo client (_netatmo.py, grant.py): authenticate and the task of    *)
(* _auth_handler on the event loop.                                        *)
(*                                                                         *)
(* Time is counted in minutes.  Minute 0 is Monday 2022-03-21T00:00Z.  An  *)
(* aware datetime is a record [wall, tz, off]: its wall-clock fields (in   *)
(* minutes since Monday 2022-03-21 00:00 on that clock), its tzinfo and    *)
(* the utcoffset of that tzinfo; the instant it denotes is wall - off.  A  *)
(* naive datetime has tz = "None".                                         *)
(*                                                                         *)
(* The methods of Timetable name members of their schedule: self.timetable *)
(* (the timepoints), self.type (the schedule's type) and                   *)
(* self.get_week_timepoints (get_week); Schedule.get_zone_by_datetime      *)
(* names get_timepoint_by_datetime (Timetable.get_by_datetime) and         *)
(* get_zone_by_id (Zones.get_id).  The model binds each name to the member *)
(* it denotes.                                                             *)
(***************************************************************************)
EXTENDS Integers, Sequences, FiniteSets, TLC

VARIABLES
    timetable,  \* Timetable._sequence: the timepoints, [zone_id, m_offset]
    type,       \* Schedule.type
    timezone,   \* Timetable._timezone / Timepoint._timezone: the home's zone
    zones,      \* Schedule.zones: the zones, [id, name]
    op,         \* the method called last ("none" before any call)
    arg,        \* its arguments
    ret,        \* what it returned or raised
    gen,        \* the generator object of one Timetable.get_period call
    gen2,       \* the generator object of a second call on the same timetable
    doc,        \* the decoded JSON value an Object is constructed from
    heap,       \* the Object instances, by address
    root,       \* the Object constructed from doc (None before)
    _token,     \* Netatmo._token: the access token stored last (None before)
    _auth_lock, \* Netatmo._auth_lock: an asyncio.Lock, [locked, waiters]
    _auth_task, \* Netatmo._auth_task: the task created last (None before)
    tasks,      \* the coroutines of the event loop, by task: their frames
    ready       \* the event loop's queue of tasks to run, first in first out

vars == <<timetable, type, timezone, zones, op, arg, ret, gen, gen2, doc, heap, root,
          _token, _auth_lock, _auth_task, tasks, ready>>

netatmo == <<_token, _auth_lock, _auth_task, tasks, ready>>

schedule == <<timetable, type, timezone, zones>>

entity == <<schedule, doc, heap, root>>

-----------------------------------------------------------------------------
(* Bounds of the model.                                                    *)

MaxLen == 3

MaxPeriodLen == 2

MaxCount == 1

MaxWeeks == 2

\* The authenticate calls made on one Netatmo object.
MaxCalls == 3

-----------------------------------------------------------------------------
(* Results: a returned value, or the exception that ended the call.        *)

Ok(v) == [err |-> "", val |-> v]

Raise(e) == [err |-> e, val |-> <<>>]

None == <<>>

Some(v) == <<v>>

-----------------------------------------------------------------------------
(* Time zones.  "UTC" is pytz.utc, "Fixed120" is the standard library's    *)
(* timezone(timedelta(seconds=7200)), "Vienna" is pytz's Europe/Vienna,    *)
(* a DstTzInfo, with its two transitions of 2022.                          *)

MinutesPerDay == 1440

DaysPerWeek == 7

\* 2022-03-27T01:00Z: CET (+01:00) -> CEST (+02:00); local 02:00-03:00 is a gap.
SpringForward == 6 * MinutesPerDay + 60

\* 2022-10-30T01:00Z: CEST (+02:00) -> CET (+01:00); local 02:00-03:00 is a fold.
FallBack == 223 * MinutesPerDay + 60

IsDstTzInfo(tz) == tz = "Vienna"

\* tzinfo.utcoffset of the zone at the UTC minute u (what fromutc applies).
UtcOffset(tz, u) ==
    CASE tz = "UTC" -> 0
      [] tz = "Fixed120" -> 120
      [] tz = "Vienna" -> IF u >= SpringForward /\ u < FallBack THEN 120 ELSE 60

\* tzinfo.dst() # 0 of the Vienna tzinfo with this utcoffset.
IsDst(tz, off) == tz = "Vienna" /\ off = 120

Instant(dt) == dt.wall - dt.off

date(dt) == dt.wall \div MinutesPerDay

time(dt) == dt.wall % MinutesPerDay

weekday(dt) == date(dt) % DaysPerWeek

\* datetime.combine(date, time): a naive wall-clock value.
combine(d, t) == d * MinutesPerDay + t

\* datetime.astimezone(tz): the same instant on the clock of tz.
astimezone(dt, tz) ==
    LET u == Instant(dt)
        o == UtcOffset(tz, u)
    IN  [wall |-> u + o, tz |-> tz, off |-> o]

\* pytz DstTzInfo.localize(dt, is_dst): the tzinfos in force one day before
\* and one day after the wall-clock value, kept when the wall-clock value
\* read with them is a local time of the zone.
possible_loc_dt(tz, wall) ==
    { o \in {UtcOffset(tz, wall - MinutesPerDay), UtcOffset(tz, wall + MinutesPerDay)} :
        UtcOffset(tz, wall - o) = o }

localize_is_dst(tz, wall, is_dst) ==
    LET possible == possible_loc_dt(tz, wall)
    IN  IF Cardinality(possible) = 1
        THEN [wall |-> wall, tz |-> tz, off |-> CHOOSE o \in possible : TRUE]
        ELSE IF possible = {}
        THEN \* a time that never happened: wind the clock by six hours
             LET shift == IF is_dst THEN 360 ELSE -360
                 near  == possible_loc_dt(tz, wall + shift)
             IN  [wall |-> wall, tz |-> tz, off |-> CHOOSE o \in near : TRUE]
        ELSE \* an ambiguous time: the possibility with the requested is_dst
             [wall |-> wall, tz |-> tz,
              off |-> CHOOSE o \in possible : IsDst(tz, o) = is_dst]

\* The daylight-saving reading preferred: localize(dt, is_dst=True).
localize_dst(tz, wall) == localize_is_dst(tz, wall, TRUE)

\* tz.localize(dt): is_dst defaults to False.
localize(tz, wall) == localize_is_dst(tz, wall, FALSE)

_dt_localize(wall, tz) ==
    IF IsDstTzInfo(tz)
    THEN localize(tz, wall)
    ELSE [wall |-> wall, tz |-> tz, off |-> UtcOffset(tz, wall)]

_dt_add_days(dt, days) ==
    _dt_localize(combine(date(dt) + days, time(dt)), dt.tz)

-----------------------------------------------------------------------------
(* Timepoint.                                                              *)

\* timedelta(minutes=m_offset), normalised to days and seconds.
get_timedelta(tp) ==
    [days |-> tp.m_offset \div MinutesPerDay,
     seconds |-> (tp.m_offset % MinutesPerDay) * 60]

\* The offset added to the week's start as an elapsed duration.
get_datetime_elapsed(tp, tz, week, home_timezone) ==
    IF week.tz = "None"
    THEN Raise("ValueError")
    ELSE LET wk == astimezone(week, tz)
             week_start == _dt_localize(combine(date(wk) - weekday(wk), 0), wk.tz)
             u == Instant(week_start) + tp.m_offset
             dt == astimezone([wall |-> u, tz |-> "UTC", off |-> 0], tz)
         IN  Ok(IF home_timezone THEN dt ELSE astimezone(dt, week.tz))

\* The week taken from the reference's own date, not from its date in the
\* home zone.
get_datetime_caller_week(tp, tz, week, home_timezone) ==
    IF week.tz = "None"
    THEN Raise("ValueError")
    ELSE LET week_start == _dt_localize(combine(date(week) - weekday(week), 0), tz)
             td == get_timedelta(tp)
             naive == combine(date(week_start) + td.days,
                              (td.seconds \div 3600) * 60 + ((td.seconds \div 60) % 60))
             dt == _dt_localize(naive, tz)
         IN  Ok(IF home_timezone THEN dt ELSE astimezone(dt, week.tz))

get_datetime(tp, tz, week, home_timezone) ==
    IF week.tz = "None"
    THEN Raise("ValueError")
    ELSE LET week_timezone == week.tz
             wk == astimezone(week, tz)
             week_start == _dt_localize(combine(date(wk) - weekday(wk), 0), wk.tz)
             td == get_timedelta(tp)
             naive == combine(date(week_start) + td.days,
                              (td.seconds \div 3600) * 60 + ((td.seconds \div 60) % 60))
             dt == _dt_localize(naive, tz)
         IN  Ok(IF home_timezone THEN dt ELSE astimezone(dt, week_timezone))

-----------------------------------------------------------------------------
(* Timetable.                                                              *)

\* list.sort(key=lambda x: x[0]): a stable sort by instant (aware datetimes
\* compare by the instant they denote).
RECURSIVE insert_sorted(_, _)
insert_sorted(sorted, x) ==
    IF sorted = <<>>
    THEN <<x>>
    ELSE IF Instant(x.dt) < Instant(sorted[Len(sorted)].dt)
    THEN Append(insert_sorted(SubSeq(sorted, 1, Len(sorted) - 1), x), sorted[Len(sorted)])
    ELSE Append(sorted, x)

\* The list left in the order of the timetable.
sort_none(list) == list

RECURSIVE sort(_)
sort(list) ==
    IF list = <<>>
    THEN <<>>
    ELSE insert_sorted(sort(SubSeq(list, 1, Len(list) - 1)), list[Len(list)])

\* The list built at lines 298-301: every timepoint with its datetime.
week_timepoints_of(tt, tz, week, home_tz) ==
    [i \in 1..Len(tt) |->
        [dt |-> get_datetime(tt[i], tz, week, home_tz).val, tp |-> tt[i]]]

\* Lines 306-310.  Line 308 builds a ValueError and does not raise it, so
\* an empty list goes on to line 309, whose week_timepoints[0] raises
\* IndexError.
drop_first(ty, week_timepoints) ==
    IF ty \in {"therm", "cooling"}
    THEN IF week_timepoints = <<>>
         THEN Raise("IndexError")
         ELSE IF week_timepoints[1].tp.zone_id
                     = week_timepoints[Len(week_timepoints)].tp.zone_id
              THEN Ok(Tail(week_timepoints))
              ELSE Ok(week_timepoints)
    ELSE Ok(week_timepoints)

get_week(tt, ty, tz, week, home_tz) ==
    IF week.tz = "None"
    THEN Raise("ValueError")
    ELSE LET kept == drop_first(ty, week_timepoints_of(tt, tz, week, home_tz))
         IN  IF kept.err # "" THEN kept ELSE Ok(sort(kept.val))

\* The loop of lines 287-291 from position i on, timepoint_previous being
\* the timepoint at i - 1 (None at i = 1).
RECURSIVE by_datetime_loop(_, _, _)
by_datetime_loop(week_timepoints, dt, i) ==
    LET timepoint_previous ==
            IF i = 1 THEN None ELSE Some(week_timepoints[i - 1].tp)
    IN  IF i > Len(week_timepoints)
        THEN timepoint_previous
        ELSE IF Instant(week_timepoints[i].dt) > Instant(dt)
        THEN IF timepoint_previous # None
             THEN timepoint_previous
             ELSE Some(week_timepoints[Len(week_timepoints)].tp)
        ELSE by_datetime_loop(week_timepoints, dt, i + 1)

get_by_datetime(tt, ty, tz, dt) ==
    IF dt.tz = "None"
    THEN Raise("ValueError")
    ELSE LET week_timepoints == get_week(tt, ty, tz, dt, FALSE)
         IN  IF week_timepoints.err # ""
             THEN week_timepoints
             ELSE Ok(by_datetime_loop(week_timepoints.val, dt, 1))

-----------------------------------------------------------------------------
(* Zones and Schedule.                                                     *)

\* Zones.get_id: the first zone of the sequence with this id, or None.
RECURSIVE get_id(_, _)
get_id(zs, zone_id) ==
    IF zs = <<>>
    THEN None
    ELSE IF Head(zs).id = zone_id THEN Some(Head(zs)) ELSE get_id(Tail(zs), zone_id)

get_zone_by_datetime(zs, tt, ty, tz, dt) ==
    LET timepoint == get_by_datetime(tt, ty, tz, dt)
    IN  IF timepoint.err # ""
        THEN timepoint
        ELSE IF timepoint.val # None
        THEN Ok(get_id(zs, timepoint.val[1].zone_id))
        ELSE Ok(None)

-----------------------------------------------------------------------------
(* The entities and the reference instants the calls are made with.        *)

\* The minute offset of a time of day on Sunday, the week's seventh day.
SundayAt(minutes) == 6 * MinutesPerDay + minutes

\* Monday 00:00, Sunday 02:30 and Sunday 03:30.
OffsetChoices == {0, SundayAt(150), SundayAt(210)}

ZoneIdChoices == {1, 2}

Timepoints == [zone_id : ZoneIdChoices, m_offset : OffsetChoices]

TimetablesTo(n) == UNION {[1..k -> Timepoints] : k \in 0..n}

TypeChoices == {"therm", "cooling", "other"}

HomeTimezones == {"Vienna", "UTC"}

Zone1 == [id |-> 1, name |-> "Comfort"]

Zone3 == [id |-> 3, name |-> "Eco"]

\* Zone 1 is the second zone of the collection; no zone has id 2.
ZonesChoices == {<<Zone3, Zone1>>}

Aware(u, tz) == astimezone([wall |-> u, tz |-> "UTC", off |-> 0], tz)

Naive(w) == [wall |-> w, tz |-> "None", off |-> 0]

References ==
    { Aware(-60, "UTC"),                 \* 2022-03-20T23:00Z = Monday 00:00 in Vienna
      Aware(-60, "Vienna"),
      Aware(0, "Fixed120"),              \* 2022-03-21T02:00+02:00
      Aware(SpringForward + 30, "UTC"),  \* 2022-03-27T01:30Z = 03:30 CEST
      Aware(SpringForward + 30, "Vienna"),
      Aware(7 * MinutesPerDay - 90, "Fixed120"),  \* 2022-03-28T00:30+02:00
      Aware(FallBack - 30, "Vienna"),    \* 2022-10-30T02:30 CEST, the first 02:30
      Aware(FallBack + 30, "UTC"),       \* 2022-10-30T01:30Z = the second 02:30
      Naive(0) }

-----------------------------------------------------------------------------

NoGen == [pc |-> "none"]

InitSchedule(n) ==
    /\ timetable \in TimetablesTo(n)
    /\ type \in TypeChoices
    /\ timezone \in HomeTimezones
    /\ zones \in ZonesChoices

\* No document, no Object built from one.
NoDoc == <<"NoneType", <<>>>>

\* The objects of the heap the constructed Object is made of; what a call
\* built after it is garbage once the caller has dropped the result.
collected(h, obj) == IF obj = NoDoc THEN <<>> ELSE SubSeq(h, 1, obj[2])

\* The tasks of the model: the k-th authenticate call and the
\* _auth_handler task it creates.
Caller(k) == <<"authenticate", k>>

Handler(k) == <<"_auth_handler", k>>

\* Netatmo.__init__, lines 87-93: no token, the lock free, no task.
InitNetatmo ==
    /\ _token = None
    /\ _auth_lock = [locked |-> FALSE, waiters |-> <<>>]
    /\ _auth_task = None
    /\ tasks = [t \in {Caller(k) : k \in 1..MaxCalls}
                         \cup {Handler(k) : k \in 1..MaxCalls}
                  |-> [pc |-> "none"]]
    /\ ready = <<>>

InitEntity(n) ==
    /\ InitSchedule(n)
    /\ doc = NoDoc
    /\ heap = <<>>
    /\ root = NoDoc

\* A call and a generator run are not interleaved: neither writes what the
\* other reads.
InitCalls ==
    /\ InitNetatmo
    /\ InitEntity(MaxLen)
    /\ op = "none"
    /\ arg = <<>>
    /\ ret = Ok(None)
    /\ gen = NoGen
    /\ gen2 = NoGen

CallGetDatetime ==
    \E i \in 1..Len(timetable), week \in References, home_timezone \in BOOLEAN :
        /\ op = "none"
        /\ gen.pc = "none"
        /\ op' = "get_datetime"
        /\ arg' = [index |-> i, week |-> week, home_tz |-> home_timezone]
        /\ ret' = get_datetime(timetable[i], timezone, week, home_timezone)
        /\ UNCHANGED <<netatmo, entity, gen, gen2>>

CallGetWeek ==
    \E week \in References, home_tz \in BOOLEAN :
        /\ op = "none"
        /\ gen.pc = "none"
        /\ op' = "get_week"
        /\ arg' = [week |-> week, home_tz |-> home_tz]
        /\ ret' = get_week(timetable, type, timezone, week, home_tz)
        /\ UNCHANGED <<netatmo, entity, gen, gen2>>

CallGetByDatetime ==
    \E dt \in References :
        /\ op = "none"
        /\ gen.pc = "none"
        /\ op' = "get_by_datetime"
        /\ arg' = [dt |-> dt]
        /\ ret' = get_by_datetime(timetable, type, timezone, dt)
        /\ UNCHANGED <<netatmo, entity, gen, gen2>>

CallGetZoneByDatetime ==
    \E dt \in References :
        /\ op = "none"
        /\ gen.pc = "none"
        /\ op' = "get_zone_by_datetime"
        /\ arg' = [dt |-> dt]
        /\ ret' = get_zone_by_datetime(zones, timetable, type, timezone, dt)
        /\ UNCHANGED <<netatmo, entity, gen, gen2>>

\* The caller takes the result and drops it; the next call can be made.
Return ==
    /\ op # "none"
    /\ op' = "none"
    /\ arg' = <<>>
    /\ ret' = Ok(None)
    /\ heap' = collected(heap, root)
    /\ UNCHANGED <<netatmo, schedule, doc, root, gen, gen2>>

NextCalls ==
    \/ CallGetDatetime
    \/ CallGetWeek
    \/ CallGetByDatetime
    \/ CallGetZoneByDatetime
    \/ Return

SpecCalls == InitCalls /\ [][NextCalls]_vars

-----------------------------------------------------------------------------
(* Timetable.get_period: a generator.  The call builds the generator       *)
(* object; the body runs when the caller iterates it, from one yield to    *)
(* the next.  count_max is None or Some(n).                                *)

\* The week of 2022-10-24 begins at 2022-10-23T22:00Z in Vienna.
AutumnMonday == 217 * MinutesPerDay - 120

PeriodFrom ==
    { Aware(-60, "UTC"),                       \* Monday 2022-03-21 00:00 in Vienna
      Aware(SpringForward + 30, "Vienna"),     \* Sunday 2022-03-27 03:30 CEST
      Aware(AutumnMonday, "Vienna"),     
      Naive(0) }

PeriodTo ==
    { Aware(SpringForward + 30, "UTC"),        \* Sunday 2022-03-27T01:30Z
      Aware(8 * MinutesPerDay, "Fixed120"),    \* Tuesday 2022-03-29T02:00+02:00
      Aware(FallBack + 30, "UTC"),             \* Sunday 2022-10-30T01:30Z
      Naive(14 * MinutesPerDay) }

CountMaxChoices == {None} \cup {Some(n) : n \in 0..MaxCount}

\* get_period(dt_from, dt_to, count_max, home_tz): no statement of the body
\* has run yet.
PeriodCall ==
    \E dt_from \in PeriodFrom, dt_to \in PeriodTo,
       count_max \in CountMaxChoices, home_tz \in BOOLEAN :
        /\ gen.pc = "none"
        /\ op = "none"
        /\ gen' = [pc |-> "created", dt_from |-> dt_from, dt_to |-> dt_to,
                   count_max |-> count_max, home_tz |-> home_tz,
                   week |-> dt_from, count |-> 0, weeks |-> 0,
                   week_timepoints |-> <<>>, i |-> 0, out |-> <<>>, err |-> ""]
        /\ UNCHANGED <<netatmo, entity, op, arg, ret, gen2>>

\* Only dt_from checked.
period_start_from_only(g) ==
    IF g.dt_from.tz = "None"
    THEN [g EXCEPT !.pc = "raised", !.err = "ValueError"]
    ELSE [g EXCEPT !.pc = "week", !.week = g.dt_from, !.count = 0]

\* Lines 321-324, at the first next().
period_start(g) ==
    IF g.dt_from.tz = "None" \/ g.dt_to.tz = "None"
    THEN [g EXCEPT !.pc = "raised", !.err = "ValueError"]
    ELSE [g EXCEPT !.pc = "week", !.week = g.dt_from, !.count = 0]

PeriodStart ==
    /\ gen.pc = "created"
    /\ gen' = period_start(gen)
    /\ UNCHANGED <<netatmo, entity, op, arg, ret, gen2>>

\* Line 326: the week's timepoints; an exception of get_week leaves the
\* generator.
\* The week read from the first generator's frame.
period_week_shared(g) ==
    LET w == get_week(timetable, type, timezone, gen.week, g.home_tz)
    IN  IF w.err # ""
        THEN [g EXCEPT !.pc = "raised", !.err = w.err]
        ELSE [g EXCEPT !.pc = "entry", !.week_timepoints = w.val,
                       !.i = 1, !.weeks = g.weeks + 1]

period_week(g) ==
    LET w == get_week(timetable, type, timezone, g.week, g.home_tz)
    IN  IF w.err # ""
        THEN [g EXCEPT !.pc = "raised", !.err = w.err]
        ELSE [g EXCEPT !.pc = "entry", !.week_timepoints = w.val,
                       !.i = 1, !.weeks = g.weeks + 1]

PeriodWeek ==
    /\ gen.pc = "week"
    /\ gen' = period_week(gen)
    /\ UNCHANGED <<netatmo, entity, op, arg, ret, gen2>>

\* count_max not checked.
period_entry_no_count(g) ==
    IF g.i > Len(g.week_timepoints)
    THEN [g EXCEPT !.pc = "week_end"]
    ELSE LET datetime_ == g.week_timepoints[g.i].dt
         IN  IF Instant(datetime_) > Instant(g.dt_to)
             THEN [g EXCEPT !.pc = "returned"]
             ELSE IF Instant(datetime_) < Instant(g.dt_from)
             THEN [g EXCEPT !.i = g.i + 1]
             ELSE [g EXCEPT !.pc = "yielded",
                            !.out = Append(g.out, g.week_timepoints[g.i])]

\* Lines 326-331: the next entry of the week, up to the yield.
period_entry(g) ==
    IF g.i > Len(g.week_timepoints)
    THEN [g EXCEPT !.pc = "week_end"]
    ELSE LET datetime_ == g.week_timepoints[g.i].dt
         IN  IF g.count_max = Some(g.count) \/ Instant(datetime_) > Instant(g.dt_to)
             THEN [g EXCEPT !.pc = "returned"]
             ELSE IF Instant(datetime_) < Instant(g.dt_from)
             THEN [g EXCEPT !.i = g.i + 1]
             ELSE [g EXCEPT !.pc = "yielded",
                            !.out = Append(g.out, g.week_timepoints[g.i])]

PeriodEntry ==
    /\ gen.pc = "entry"
    /\ gen' = period_entry(gen)
    /\ UNCHANGED <<netatmo, entity, op, arg, ret, gen2>>

\* Line 332, when the caller asks for the next entry.
period_resume(g) ==
    [g EXCEPT !.pc = "entry", !.count = g.count + 1, !.i = g.i + 1]

PeriodResume ==
    /\ gen.pc = "yielded"
    /\ gen' = period_resume(gen)
    /\ UNCHANGED <<netatmo, entity, op, arg, ret, gen2>>

\* The next week entered whatever the count.
period_week_end_next(g) ==
    [g EXCEPT !.pc = "week", !.week = _dt_add_days(g.week, 7)]

\* Lines 333-335.
period_week_end(g) ==
    IF g.count = 0
    THEN [g EXCEPT !.pc = "returned"]
    ELSE [g EXCEPT !.pc = "week", !.week = _dt_add_days(g.week, 7)]

PeriodWeekEnd ==
    /\ gen.pc = "week_end"
    /\ gen.count = 0 \/ gen.weeks < MaxWeeks
    /\ gen' = period_week_end(gen)
    /\ UNCHANGED <<netatmo, entity, op, arg, ret, gen2>>

\* The caller drops the finished generator.
PeriodDrop ==
    /\ gen.pc \in {"returned", "raised"}
    /\ gen' = NoGen
    /\ UNCHANGED <<netatmo, entity, op, arg, ret, gen2>>

InitPeriod ==
    /\ InitNetatmo
    /\ InitEntity(MaxPeriodLen)
    /\ op = "none"
    /\ arg = <<>>
    /\ ret = Ok(None)
    /\ gen = NoGen
    /\ gen2 = NoGen

NextPeriod ==
    \/ PeriodCall
    \/ PeriodStart
    \/ PeriodWeek
    \/ PeriodEntry
    \/ PeriodResume
    \/ PeriodWeekEnd
    \/ PeriodDrop
    \/ NextCalls

SpecPeriod == InitPeriod /\ [][NextPeriod]_vars

-----------------------------------------------------------------------------
(* What the claims speak of, stated without the methods above.             *)

\* The home-local wall clock at the UTC minute u.
HomeWall(u) == u + UtcOffset(timezone, u)

\* The readings of the wall-clock value w in the zone: the instants whose
\* local time is w.  None in a gap, two in a fold.
Readings(tz, w) == { w - o : o \in {o2 \in {0, 60, 120} : UtcOffset(tz, w - o2) = o2} }

InGap(tz, w) == Readings(tz, w) = {}

InFold(tz, w) == Cardinality(Readings(tz, w)) = 2

\* Monday 00:00 of the home-local week of the reference, on the home clock.
HomeMonday(week) ==
    LET day == HomeWall(Instant(week)) \div MinutesPerDay
    IN  (day - (day % DaysPerWeek)) * MinutesPerDay

\* The wall-clock value of a timepoint in the week of the reference.
WallOf(tp, week) ==
    HomeMonday(week)
        + (tp.m_offset \div MinutesPerDay) * MinutesPerDay
        + (tp.m_offset % MinutesPerDay)

GetDatetimeReturned ==
    op = "get_datetime" /\ arg.week.tz # "None"

-----------------------------------------------------------------------------
-----------------------------------------------------------------------------
GetWeekReturned ==
    op = "get_week" /\ arg.week.tz # "None"

\* Every timepoint of the timetable with its instant in the week of the
\* reference: the occurrences of the week.
Occurrences(week) ==
    [i \in 1..Len(timetable) |->
        [instant |-> Instant(get_datetime(timetable[i], timezone, week, TRUE).val),
         tp |-> timetable[i]]]

DistinctInstants(occ) ==
    \A i, j \in 1..Len(occ) : i # j => occ[i].instant # occ[j].instant

\* The index of the earliest and of the latest occurrence.
Earliest(occ) == CHOOSE i \in 1..Len(occ) : \A j \in 1..Len(occ) : occ[i].instant <= occ[j].instant

Latest(occ) == CHOOSE i \in 1..Len(occ) : \A j \in 1..Len(occ) : occ[i].instant >= occ[j].instant

\* The timepoints of a returned week, as a set of (instant, timepoint).
Entries(list) == { [instant |-> Instant(list[i].dt), tp |-> list[i].tp] : i \in 1..Len(list) }

\* C2: get_week drops exactly the chronologically-first occurrence, if and
\* only if the type is "therm" or "cooling" and the chronologically-first
\* and chronologically-last occurrences have the same zone_id, whatever the
\* order of the timepoints in the timetable; otherwise it drops nothing.
\* (Stated for a timetable that is not empty and whose occurrences are at
\* distinct instants.)
C2_DropsChronologicalFirst ==
    LET occ == Occurrences(arg.week)
        all == { occ[i] : i \in 1..Len(occ) }
    IN  (GetWeekReturned /\ timetable # <<>> /\ DistinctInstants(occ)) =>
            /\ ret.err = ""
            /\ IF /\ type \in {"therm", "cooling"}
                  /\ occ[Earliest(occ)].tp.zone_id = occ[Latest(occ)].tp.zone_id
               THEN /\ Len(ret.val) = Len(timetable) - 1
                    /\ Entries(ret.val) = all \ {occ[Earliest(occ)]}
               ELSE /\ Len(ret.val) = Len(timetable)
                    /\ Entries(ret.val) = all

\* C3 (as stated): the list get_week returns is strictly ascending by
\* instant.  (Stated for a timetable whose offsets are all different.)
C3_StrictlyAscending ==
    (/\ GetWeekReturned
     /\ ret.err = ""
     /\ \A i, j \in 1..Len(timetable) :
            i # j => timetable[i].m_offset # timetable[j].m_offset) =>
        \A i \in 1..(Len(ret.val) - 1) :
            Instant(ret.val[i].dt) < Instant(ret.val[i + 1].dt)

\* C3 (amended): the list get_week returns is ascending by instant: no
\* entry's instant is later than the next entry's.
C3_Ascending ==
    (GetWeekReturned /\ ret.err = "") =>
        \A i \in 1..(Len(ret.val) - 1) :
            Instant(ret.val[i].dt) <= Instant(ret.val[i + 1].dt)

\* A returned week of two entries or more whose timetable lists a later
\* timepoint before an earlier one.
C3_Witness ==
    /\ GetWeekReturned
    /\ ret.err = ""
    /\ Len(ret.val) >= 2
    /\ \E i \in 1..(Len(timetable) - 1) :
           /\ timetable[i].m_offset > timetable[i + 1].m_offset
           /\ \E k, l \in 1..Len(ret.val) :
                  k < l /\ ret.val[k].tp = timetable[i + 1] /\ ret.val[l].tp = timetable[i]

-----------------------------------------------------------------------------
\* The zone of the collection with this id: the first one, or None.
ZoneWithId(zone_id) ==
    IF \E k \in 1..Len(zones) : zones[k].id = zone_id
    THEN Some(zones[CHOOSE k \in 1..Len(zones) :
                        /\ zones[k].id = zone_id
                        /\ \A l \in 1..(k - 1) : zones[l].id # zone_id])
    ELSE None

\* The occurrences active at the instant t: the latest ones not after t,
\* or, when t precedes every occurrence of its week, the latest of the week
\* (the timepoint that the week before ended with).
ActiveAt(occ, t) ==
    LET before == { i \in 1..Len(occ) : occ[i].instant <= t }
        among  == IF before # {} THEN before ELSE 1..Len(occ)
    IN  { i \in among : \A j \in among : occ[j].instant <= occ[i].instant }

\* C5: get_zone_by_datetime(T) returns the zone, looked up by id, of the
\* timepoint whose occurrence is the latest one not after T in the week of
\* T, or of the last timepoint of the week when T precedes every
\* occurrence; none when no zone has that id.  (Stated for a timetable that
\* is not empty.)
C5_ZoneOfLatestOccurrence ==
    (op = "get_zone_by_datetime" /\ arg.dt.tz # "None" /\ timetable # <<>>) =>
        /\ ret.err = ""
        /\ \E i \in ActiveAt(Occurrences(arg.dt), Instant(arg.dt)) :
               ret.val = ZoneWithId(timetable[i].zone_id)

-----------------------------------------------------------------------------
\* C6 (as stated): a wall-clock value in a DST fold resolves to the earlier
\* of its two instants; one in a DST gap resolves to a valid instant and
\* the datetime returned never shows a local time that does not exist.
C6_EarliestInterpretation ==
    GetDatetimeReturned =>
        LET w == WallOf(timetable[arg.index], arg.week)
        IN  /\ ret.err = ""
            /\ InFold(timezone, w) =>
                   \A u \in Readings(timezone, w) : Instant(ret.val) <= u
            /\ InGap(timezone, w) => ~InGap(ret.val.tz, ret.val.wall)

\* C6 (amended): a wall-clock value in a DST fold resolves to the later of
\* its two instants (the standard-time reading); one in a DST gap is read
\* with the UTC offset in force before the transition, which gives an
\* instant whose home-local time is the wall-clock value moved forward by
\* the length of the gap.
C6_StandardTimeReading ==
    GetDatetimeReturned =>
        LET w == WallOf(timetable[arg.index], arg.week)
            before == UtcOffset(timezone, w - MinutesPerDay)
            after  == UtcOffset(timezone, w + MinutesPerDay)
        IN  /\ ret.err = ""
            /\ InFold(timezone, w) =>
                   /\ Instant(ret.val) \in Readings(timezone, w)
                   /\ \A u \in Readings(timezone, w) : Instant(ret.val) >= u
            /\ InGap(timezone, w) =>
                   /\ Instant(ret.val) = w - before
                   /\ HomeWall(Instant(ret.val)) = w + (after - before)

\* Sunday 2022-10-30 02:30 in Vienna, which occurs twice, resolved to its
\* second occurrence, 01:30Z.
C6_Witness ==
    /\ GetDatetimeReturned
    /\ InFold(timezone, WallOf(timetable[arg.index], arg.week))
    /\ Instant(ret.val) = FallBack + 30

-----------------------------------------------------------------------------
-----------------------------------------------------------------------------
\* The reference instant of the call.
ArgReference == IF op \in {"get_datetime", "get_week"} THEN arg.week ELSE arg.dt

\* C8: get_datetime, get_week, get_by_datetime (and the zone lookup built
\* on it) and get_period each end with ValueError and no result when a
\* reference instant is naive; get_period does so when dt_from or dt_to is
\* naive, before it yields anything.
C8_NaiveReferenceRejected ==
    /\ (op # "none" /\ ArgReference.tz = "None") => ret = Raise("ValueError")
    /\ (/\ gen.pc \notin {"none", "created"}
        /\ (gen.dt_from.tz = "None" \/ gen.dt_to.tz = "None")) =>
           /\ gen.pc = "raised"
           /\ gen.err = "ValueError"
           /\ gen.out = <<>>

\* get_period ended by ValueError for a naive dt_to, dt_from being aware.
C8_Witness ==
    /\ gen.pc = "raised"
    /\ gen.err = "ValueError"
    /\ gen.dt_from.tz # "None"
    /\ gen.dt_to.tz = "None"
    /\ timetable # <<>>

-----------------------------------------------------------------------------
\* C9: get_week on the empty timetable of a "therm" or "cooling" schedule
\* ends with the error that reports the invalid timetable, the ValueError
\* of line 308.
C9_EmptyTimetableRaisesValueError ==
    (GetWeekReturned /\ timetable = <<>> /\ type \in {"therm", "cooling"}) =>
        ret.err = "ValueError"

-----------------------------------------------------------------------------
(* The claims on Timetable.get_period.                                     *)

AwareBounds ==
    gen.pc # "none" /\ gen.dt_from.tz # "None" /\ gen.dt_to.tz # "None"

\* C4: at every point of a get_period iteration the entries yielded so far
\* are at most count_max and each lies in [dt_from, dt_to].
C4_WithinCountAndBounds ==
    gen.pc # "none" =>
        /\ gen.count_max # None => Len(gen.out) <= gen.count_max[1]
        /\ \A k \in 1..Len(gen.out) :
               /\ Instant(gen.dt_from) <= Instant(gen.out[k].dt)
               /\ Instant(gen.out[k].dt) <= Instant(gen.dt_to)

\* An iteration ended by count_max at an entry that lies in
\* [dt_from, dt_to], after it yielded count_max entries.
C4_Witness ==
    /\ gen.pc = "returned"
    /\ Len(gen.out) >= 1
    /\ gen.count_max = Some(Len(gen.out))
    /\ gen.i <= Len(gen.week_timepoints)
    /\ Instant(gen.dt_from) <= Instant(gen.week_timepoints[gen.i].dt)
    /\ Instant(gen.week_timepoints[gen.i].dt) <= Instant(gen.dt_to)

\* What get_week gives for the first week of the iteration.
FirstWeek == get_week(timetable, type, timezone, gen.dt_from, gen.home_tz)

\* C10 (as stated): get_period over a timetable whose week yields no entry,
\* the empty timetable of any schedule type included, ends without an
\* entry and without an error.
C10_NoEntryEndsSilently ==
    (/\ AwareBounds
     /\ gen.pc \in {"returned", "raised"}
     /\ (timetable = <<>> \/ (FirstWeek.err = "" /\ FirstWeek.val = <<>>))) =>
        gen.pc = "returned" /\ gen.out = <<>>

\* C10 (amended): when get_week returns an empty list for the first week
\* (an empty timetable of a type other than "therm" and "cooling", a
\* "therm" or "cooling" timetable of one timepoint), get_period visits that
\* week only and ends without an entry and without an error; when get_week
\* raises (the empty timetable of a "therm" or "cooling" schedule), its
\* exception leaves get_period before any entry.
C10_EmptyListEndsSilently ==
    /\ (AwareBounds /\ FirstWeek.err = "" /\ FirstWeek.val = <<>>) =>
           /\ gen.pc \in {"created", "week", "entry", "week_end", "returned"}
           /\ gen.out = <<>>
           /\ gen.err = ""
           /\ gen.weeks <= 1
    /\ (AwareBounds /\ FirstWeek.err # "" /\ gen.pc \notin {"created", "week"}) =>
           /\ gen.pc = "raised"
           /\ gen.err = FirstWeek.err
           /\ gen.out = <<>>

\* get_period returned without an entry over a "therm" or "cooling"
\* timetable of one timepoint, whose week is an empty list.
C10_Witness ==
    /\ AwareBounds
    /\ gen.pc = "returned"
    /\ Len(timetable) = 1
    /\ gen.weeks = 1
    /\ gen.week_timepoints = <<>>
    /\ gen.out = <<>>

-----------------------------------------------------------------------------
(* Two get_period calls with the same arguments on one timetable.  Each    *)
(* call has its own generator object, and the locals week and count live   *)
(* in it; the caller iterates the two in any order.                        *)

MaxTwoLen == 1

period_frame(dt_from, dt_to, count_max, home_tz) ==
    [pc |-> "created", dt_from |-> dt_from, dt_to |-> dt_to,
     count_max |-> count_max, home_tz |-> home_tz,
     week |-> dt_from, count |-> 0, weeks |-> 0,
     week_timepoints |-> <<>>, i |-> 0, out |-> <<>>, err |-> ""]

\* The body of get_period from one suspension point to the next.
period_step(g) ==
    CASE g.pc = "created" -> period_start(g)
      [] g.pc = "week" -> period_week(g)
      [] g.pc = "entry" -> period_entry(g)
      [] g.pc = "yielded" -> period_resume(g)
      [] g.pc = "week_end" -> period_week_end(g)

Running(g) ==
    /\ g.pc \in {"created", "week", "entry", "yielded", "week_end"}
    /\ g.pc = "week_end" => g.count = 0 \/ g.weeks < MaxWeeks

TwoCall ==
    \E dt_from \in PeriodFrom, dt_to \in PeriodTo,
       count_max \in CountMaxChoices, home_tz \in BOOLEAN :
        /\ gen.pc = "none"
        /\ gen2.pc = "none"
        /\ gen' = period_frame(dt_from, dt_to, count_max, home_tz)
        /\ gen2' = period_frame(dt_from, dt_to, count_max, home_tz)
        /\ UNCHANGED <<netatmo, entity, op, arg, ret>>

TwoFirst ==
    /\ gen2.pc # "none"
    /\ Running(gen)
    /\ gen' = period_step(gen)
    /\ UNCHANGED <<netatmo, entity, op, arg, ret, gen2>>

TwoSecond ==
    /\ gen.pc # "none"
    /\ Running(gen2)
    /\ gen2' = period_step(gen2)
    /\ UNCHANGED <<netatmo, entity, op, arg, ret, gen>>

\* The caller drops both generators once neither runs on.
TwoDrop ==
    /\ gen.pc # "none" /\ ~Running(gen)
    /\ gen2.pc # "none" /\ ~Running(gen2)
    /\ gen' = NoGen
    /\ gen2' = NoGen
    /\ UNCHANGED <<netatmo, entity, op, arg, ret>>

InitTwo ==
    /\ InitNetatmo
    /\ InitEntity(MaxTwoLen)
    /\ op = "none"
    /\ arg = <<>>
    /\ ret = Ok(None)
    /\ gen = NoGen
    /\ gen2 = NoGen

NextTwo ==
    \/ TwoCall
    \/ TwoFirst
    \/ TwoSecond
    \/ TwoDrop

SpecTwo == InitTwo /\ [][NextTwo]_vars

IsPrefix(s, t) == Len(s) <= Len(t) /\ SubSeq(t, 1, Len(s)) = s

-----------------------------------------------------------------------------
(* Objects (object/_common.py).  A Python value is a pair: the name of its *)
(* type and its content.  A str is the sequence of its characters, a float *)
(* 1.5 is written as its tenths (15), a list is the sequence of its items, *)
(* a dict the sequence of its [key, value] pairs in insertion order, a set *)
(* has no content the model reads.  An Object is the pair of its class and *)
(* its address in heap; heap[a] is [cls, items]: the class and the content *)
(* of _sequence or _mapping.                                               *)

Py(type_, content) == <<type_, content>>

py(value) == value[1]

v(value) == value[2]

SequenceClasses ==
    {"SequenceObject", "HomesData", "RoomsData", "ModulesData", "Schedules", "Zones"}

MappingClasses ==
    {"MappingObject", "HomeData", "RoomData", "ModuleData", "Schedule", "Zone"}

\* isinstance(item, type_) for a builtin type_: bool is a subclass of int.
isinstance(item, type_) ==
    py(item) = type_ \/ (type_ = "int" /\ py(item) = "bool")

\* isinstance(item, Sequence) once str is excluded, isinstance(item, Mapping).
IsSequence(item) == py(item) = "list" \/ py(item) \in SequenceClasses

IsMapping(item) == py(item) = "dict" \/ py(item) \in MappingClasses

\* type_(item), line 24.
convert(type_, item) ==
    IF type_ = "int" /\ py(item) = "bool"
    THEN Py("int", IF v(item) THEN 1 ELSE 0)
    ELSE Py(type_, v(item))

\* Line 22.
scalar_types == <<"bool", "int", "float", "str">>

RECURSIVE first_type(_, _)
\* Lines 22-25: the first type of the tuple the item is an instance of.
first_type(item, types) ==
    IF types = <<>>
    THEN None
    ELSE IF isinstance(item, Head(types))
         THEN Some(convert(Head(types), item))
         ELSE first_type(item, Tail(types))

\* What iterating the source of a new Object gives: the items of a list or
\* of a SequenceObject, the items() of a dict or of a MappingObject.
elements(h, item) ==
    IF py(item) \in {"list", "dict"} THEN v(item) ELSE h[v(item)].items

Built(h, value) == [err |-> "", heap |-> h, val |-> value]

Failed(h, e) == [err |-> e, heap |-> h, val |-> <<>>]

RECURSIVE _assign(_, _), assign_items(_, _, _, _), construct(_, _, _)

\* Lines 18-32.  ObjectDataError.__init__ (lines 168-169) takes no
\* argument: the call of line 32 raises TypeError.
_assign(h, item) ==
    IF py(item) = "NoneType"
    THEN Built(h, item)
    ELSE LET scalar == first_type(item, scalar_types)
         IN  IF scalar # None
             THEN Built(h, scalar[1])
             ELSE IF IsSequence(item)
             THEN construct(h, "SequenceObject", item)
             ELSE IF IsMapping(item)
             THEN construct(h, "MappingObject", item)
             ELSE Failed(h, "TypeError")

\* Lines 47-48 and 72-73: the items assigned in turn, acc built so far.
assign_items(h, items, keyed, acc) ==
    IF items = <<>>
    THEN Built(h, acc)
    ELSE LET item == Head(items)
             r == _assign(h, IF keyed THEN item.value ELSE item)
         IN  IF r.err # ""
             THEN r
             ELSE assign_items(r.heap, Tail(items), keyed,
                               Append(acc, IF keyed
                                           THEN [key |-> item.key, value |-> r.val]
                                           ELSE r.val))

\* cls(item), lines 45-48 and 70-73: a new Object of class cls.  A mapping
\* class reads item.items(), which only a mapping has.
construct(h, cls, item) ==
    IF cls \in MappingClasses /\ ~IsMapping(item)
    THEN Failed(h, "AttributeError")
    ELSE LET r == assign_items(h, elements(h, item), cls \in MappingClasses, <<>>)
         IN  IF r.err # ""
             THEN r
             ELSE Built(Append(r.heap, [cls |-> cls, items |-> r.val]),
                        Py(cls, Len(r.heap) + 1))

\* A new Object with the items of the original.
deepcopy_shallow(h, value) ==
    IF py(value) \notin SequenceClasses \cup MappingClasses
    THEN Built(h, value)
    ELSE Built(Append(h, [cls |-> py(value), items |-> h[v(value)].items]),
               Py(py(value), Len(h) + 1))

RECURSIVE deepcopy(_, _), deepcopy_items(_, _, _, _)

\* Line 36: deepcopy of a value; an Object is copied with its content.
deepcopy(h, value) ==
    IF py(value) \notin SequenceClasses \cup MappingClasses
    THEN Built(h, value)
    ELSE LET r == deepcopy_items(h, h[v(value)].items, py(value) \in MappingClasses, <<>>)
         IN  Built(Append(r.heap, [cls |-> py(value), items |-> r.val]),
                   Py(py(value), Len(r.heap) + 1))

deepcopy_items(h, items, keyed, acc) ==
    IF items = <<>>
    THEN Built(h, acc)
    ELSE LET item == Head(items)
             r == deepcopy(h, IF keyed THEN item.value ELSE item)
         IN  deepcopy_items(r.heap, Tail(items), keyed,
                            Append(acc, IF keyed
                                        THEN [key |-> item.key, value |-> r.val]
                                        ELSE r.val))

-----------------------------------------------------------------------------
(* Reading an Object.                                                      *)

PyNone == Py("NoneType", <<>>)

RECURSIVE lookup(_, _)
\* dict.__getitem__: the value stored under the key, KeyError without one.
lookup(items, key) ==
    IF items = <<>>
    THEN Raise("KeyError")
    ELSE IF Head(items).key = key
         THEN Ok(Head(items).value)
         ELSE lookup(Tail(items), key)

\* MappingObject.__getitem__, lines 75-76.
mapping_getitem(h, obj, key) == lookup(h[v(obj)].items, key)

\* SequenceObject.__getitem__, lines 50-51: list indexing, from the end for
\* a negative index.
sequence_getitem(h, obj, key) ==
    LET items == h[v(obj)].items
    IN  IF key >= 0 /\ key < Len(items)
        THEN Ok(items[key + 1])
        ELSE IF key < 0 /\ key >= -Len(items)
        THEN Ok(items[Len(items) + key + 1])
        ELSE Raise("IndexError")

\* Lines 85-92.
_get_type(h, obj, key, type_) ==
    LET value == mapping_getitem(h, obj, key)
    IN  IF value.err = "KeyError"
        THEN Raise("ObjectAttributeError")
        ELSE IF ~isinstance(value.val, type_)
        THEN Raise("ObjectTypeError")
        ELSE value

_get_str(h, obj, key) == _get_type(h, obj, key, "str")

_get_int(h, obj, key) == _get_type(h, obj, key, "int")

_get_bool(h, obj, key) == _get_type(h, obj, key, "bool")

\* bytes.fromhex.  The digits of base 16 and their capitals.
HexDigits ==
    <<"0", "1", "2", "3", "4", "5", "6", "7", "8", "9", "a", "b", "c", "d", "e", "f">>

UpperDigits ==
    <<"0", "1", "2", "3", "4", "5", "6", "7", "8", "9", "A", "B", "C", "D", "E", "F">>

IsHexDigit(c) == \E i \in DOMAIN HexDigits : HexDigits[i] = c \/ UpperDigits[i] = c

digit_value(c) ==
    (CHOOSE i \in DOMAIN HexDigits : HexDigits[i] = c \/ UpperDigits[i] = c) - 1

\* The second digit of a pair taken as the high one.
byte_of_low_first(top, bot) == Len(HexDigits) * digit_value(bot) + digit_value(top)

byte_of(top, bot) == Len(HexDigits) * digit_value(top) + digit_value(bot)

RECURSIVE fromhex(_)
\* Spaces are skipped between the pairs of digits; anything else than a
\* pair of digits is a ValueError.
fromhex(string) ==
    IF string = <<>>
    THEN Ok(<<>>)
    ELSE IF Head(string) = " "
    THEN fromhex(Tail(string))
    ELSE IF Len(string) >= 2 /\ IsHexDigit(string[1]) /\ IsHexDigit(string[2])
    THEN LET rest == fromhex(SubSeq(string, 3, Len(string)))
         IN  IF rest.err # ""
             THEN rest
             ELSE Ok(<<byte_of(string[1], string[2])>> \o rest.val)
    ELSE Raise("ValueError")

\* str.replace(":", "").
replace_colons(string) == SelectSeq(string, LAMBDA c : c # ":")

\* HomeObject.id (lines 110-116), Schedule.id (_data.py 208-214): the
\* ValueError of fromhex becomes ObjectIdError.
hex_id(h, obj, strip) ==
    LET value == _get_str(h, obj, "id")
    IN  IF value.err # ""
        THEN value
        ELSE LET decoded == fromhex(IF strip THEN replace_colons(v(value.val))
                                             ELSE v(value.val))
             IN  IF decoded.err = "ValueError"
                 THEN Raise("ObjectIdError")
                 ELSE Ok(Py("bytes", decoded.val))

\* The id property of the entity classes: HomeObject lines 110-116,
\* RoomObject 125-131, ModuleObject 140-146; Schedule and Zone in _data.py.
id(h, obj) ==
    CASE py(obj) \in {"HomeData", "Schedule"} -> hex_id(h, obj, FALSE)
      [] py(obj) = "ModuleData" -> hex_id(h, obj, TRUE)
      [] py(obj) \in {"RoomData", "Zone"} -> _get_int(h, obj, "id")
      [] OTHER -> Raise("AttributeError")

\* HomeData.name (_data.py 65-68), ModuleData.room_id (169-172).
name(h, obj) == _get_str(h, obj, "name")

room_id(h, obj) == _get_int(h, obj, "room_id")

\* a == b of Python for the values compared here: a bool is the int 0 or 1.
py_eq(a, b) ==
    IF {py(a), py(b)} \subseteq {"bool", "int"}
    THEN v(convert("int", a)) = v(convert("int", b))
    ELSE a = b

\* The class get_id wraps the items of a collection with.
ItemClass(cls) ==
    CASE cls = "HomesData" -> "HomeData"
      [] cls = "RoomsData" -> "RoomData"
      [] cls = "ModulesData" -> "ModuleData"
      [] cls = "Schedules" -> "Schedule"
      [] cls = "Zones" -> "Zone"

RECURSIVE get_id_last(_, _, _, _, _)
\* The scan goes on after a match: the last match is returned.
get_id_last(h, cls, items, wanted, found) ==
    IF items = <<>>
    THEN Built(h, found)
    ELSE LET object_ == construct(h, ItemClass(cls), Head(items))
         IN  IF object_.err # ""
             THEN object_
             ELSE LET id_ == id(object_.heap, object_.val)
                  IN  IF id_.err # ""
                      THEN Failed(object_.heap, id_.err)
                      ELSE get_id_last(object_.heap, cls, Tail(items), wanted,
                                       IF py_eq(id_.val, wanted)
                                       THEN object_.val ELSE found)

RECURSIVE get_id_loop(_, _, _, _, _)
\* The loop of get_id (_data.py 46-53, 109-117, 144-152, 186-194, 409-417):
\* each item wrapped in turn and its id compared; None after the last one.
get_id_loop(h, cls, items, wanted, found) ==
    IF items = <<>>
    THEN Built(h, found)
    ELSE LET object_ == construct(h, ItemClass(cls), Head(items))
         IN  IF object_.err # ""
             THEN object_
             ELSE LET id_ == id(object_.heap, object_.val)
                  IN  IF id_.err # ""
                      THEN Failed(object_.heap, id_.err)
                      ELSE IF py_eq(id_.val, wanted)
                      THEN Built(object_.heap, object_.val)
                      ELSE get_id_loop(object_.heap, cls, Tail(items), wanted, found)

collection_get_id(h, obj, wanted) ==
    get_id_loop(h, py(obj), h[v(obj)].items, wanted, PyNone)

-----------------------------------------------------------------------------
(* The documents Objects are constructed from, and the calls on the Object *)
(* constructed.  One call at a time; what a call built is collected when   *)
(* the caller drops its result.                                            *)

MaxIdLen == 4

MaxItems == 2

Str(chars) == Py("str", chars)

Dict(key, value) == Py("dict", <<[key |-> key, value |-> value]>>)

\* A value that JSON does not have.
ASet == Py("set", <<>>)

Keys == {"id", "name", "room_id"}

Values ==
    { PyNone, Py("bool", TRUE), Py("bool", FALSE), Py("int", 0), Py("int", 1),
      Py("float", 15), Str(<<>>), Str(<<"a", "b">>),
      Py("list", <<>>), Py("list", <<Py("int", 1)>>),
      Py("dict", <<>>), Dict("id", Py("bool", TRUE)),
      ASet, Py("list", <<ASet>>), Dict("x", ASet),
      Py("list", <<Py("int", 1), Dict("x", Py("list", <<ASet>>))>>) }

\* A mapping with at most one of the keys read below.
GetterDocs == {Py("dict", <<>>)} \cup {Dict(key, value) : key \in Keys, value \in Values}

IdChars == {"a", "B", "1", "g", " ", ":"}

StringsTo(n) == UNION {[1..k -> IdChars] : k \in 0..n}

\* A mapping whose "id" is a string.
IdDocs == {Dict("id", Str(chars)) : chars \in StringsTo(MaxIdLen)}

\* The items of a collection: "ab" and "AB" are one id and "a:b" is the
\* same id of a module, 1 and True compare equal, "g" is no hexadecimal
\* string, the last three have no id.
Items ==
    { Dict("id", Str(<<"a", "b">>)), Dict("id", Str(<<"A", "B">>)),
      Dict("id", Str(<<"a", ":", "b">>)),
      Dict("id", Str(<<"g">>)), Dict("id", Py("int", 1)),
      Dict("id", Py("bool", TRUE)), Py("dict", <<>>), Py("int", 7), ASet }

CollectionDocs == {Py("list", items) : items \in UNION {[1..k -> Items] : k \in 0..MaxItems}}

\* The ids asked for: b"\xab", b"", 1 and 2.
Wanted == {Py("bytes", <<171>>), Py("bytes", <<>>), Py("int", 1), Py("int", 2)}

ClassesOf(document) ==
    IF py(document) = "list"
    THEN {"HomesData", "RoomsData", "ModulesData", "Schedules", "Zones"}
    ELSE {"HomeData", "ModuleData", "Zone"}

Idle == op = "none" /\ gen.pc = "none" /\ gen2.pc = "none"

\* cls(doc): the Object or the exception of its construction.
Construct ==
    \E cls \in ClassesOf(doc) :
        /\ Idle
        /\ root = PyNone
        /\ LET r == construct(heap, cls, doc)
           IN  /\ heap' = r.heap
               /\ root' = IF r.err = "" THEN r.val ELSE PyNone
               /\ op' = IF r.err = "" THEN "none" ELSE "construct"
               /\ arg' = IF r.err = "" THEN <<>> ELSE [cls |-> cls]
               /\ ret' = IF r.err = "" THEN Ok(None) ELSE Raise(r.err)
        /\ UNCHANGED <<netatmo, schedule, doc, gen, gen2>>

\* obj[key].
CallGetitem ==
    /\ Idle
    /\ \/ /\ py(root) \in MappingClasses
          /\ \E key \in Keys :
                /\ arg' = [key |-> key]
                /\ ret' = mapping_getitem(heap, root, key)
       \/ /\ py(root) \in SequenceClasses
          /\ \E key \in -1 .. MaxItems :
                /\ arg' = [key |-> key]
                /\ ret' = sequence_getitem(heap, root, key)
    /\ op' = "getitem"
    /\ UNCHANGED <<netatmo, entity, gen, gen2>>

\* _get_str, _get_int, _get_bool.
CallGetType ==
    \E key \in Keys, type_ \in {"str", "int", "bool"} :
        /\ Idle
        /\ py(root) \in MappingClasses
        /\ op' = "_get_type"
        /\ arg' = [key |-> key, type_ |-> type_]
        /\ ret' = _get_type(heap, root, key, type_)
        /\ UNCHANGED <<netatmo, entity, gen, gen2>>

CallId ==
    /\ Idle
    /\ py(root) \in MappingClasses
    /\ op' = "id"
    /\ arg' = <<>>
    /\ ret' = id(heap, root)
    /\ UNCHANGED <<netatmo, entity, gen, gen2>>

CallName ==
    /\ Idle
    /\ py(root) \in MappingClasses
    /\ op' = "name"
    /\ arg' = <<>>
    /\ ret' = name(heap, root)
    /\ UNCHANGED <<netatmo, entity, gen, gen2>>

CallRoomId ==
    /\ Idle
    /\ py(root) = "ModuleData"
    /\ op' = "room_id"
    /\ arg' = <<>>
    /\ ret' = room_id(heap, root)
    /\ UNCHANGED <<netatmo, entity, gen, gen2>>

CallGetId ==
    \E wanted \in Wanted :
        /\ Idle
        /\ py(root) \in SequenceClasses
        /\ LET r == collection_get_id(heap, root, wanted)
           IN  /\ heap' = r.heap
               /\ ret' = IF r.err = "" THEN Ok(r.val) ELSE Raise(r.err)
        /\ op' = "get_id"
        /\ arg' = [wanted |-> wanted]
        /\ UNCHANGED <<netatmo, schedule, doc, root, gen, gen2>>

CallCopy ==
    /\ Idle
    /\ root # PyNone
    /\ LET r == deepcopy(heap, root)
       IN  /\ heap' = r.heap
           /\ ret' = Ok(r.val)
    /\ op' = "copy"
    /\ arg' = <<>>
    /\ UNCHANGED <<netatmo, schedule, doc, root, gen, gen2>>

\* No schedule is read by these calls.
InitNode ==
    /\ InitNetatmo
    /\ timetable = <<>>
    /\ type = "other"
    /\ timezone = "UTC"
    /\ zones = <<>>
    /\ doc \in GetterDocs \cup IdDocs \cup CollectionDocs
    /\ heap = <<>>
    /\ root = PyNone
    /\ op = "none"
    /\ arg = <<>>
    /\ ret = Ok(None)
    /\ gen = NoGen
    /\ gen2 = NoGen

NextNode ==
    \/ Construct
    \/ CallGetitem
    \/ CallGetType
    \/ CallId
    \/ CallName
    \/ CallRoomId
    \/ CallGetId
    \/ CallCopy
    \/ Return

SpecNode == InitNode /\ [][NextNode]_vars

-----------------------------------------------------------------------------
(* The claims on Objects, stated on the document and on the stored values. *)

\* The kind of a stored value.
Kind(value) ==
    CASE py(value) = "NoneType" -> "Null"
      [] py(value) = "bool" -> "Bool"
      [] py(value) = "int" -> "Int"
      [] py(value) = "float" -> "Float"
      [] py(value) = "str" -> "String"
      [] py(value) \in SequenceClasses \cup {"list"} -> "List"
      [] py(value) \in MappingClasses \cup {"dict"} -> "Map"
      [] OTHER -> "Other"

\* The value the document has under the key: <<>> without the key.
Field(key) ==
    LET pairs == SelectSeq(v(doc), LAMBDA pair : pair.key = key)
    IN  IF pairs = <<>> THEN None ELSE Some(pairs[1].value)

IsHexString(chars) == \A i \in DOMAIN chars : IsHexDigit(chars[i])

\* The bytes a string of pairs of hexadecimal digits writes.
BytesOf(chars) ==
    [i \in 1 .. (Len(chars) \div 2) |->
        16 * digit_value(chars[2 * i - 1]) + digit_value(chars[2 * i])]

\* ObjectError and its subclasses.
ObjectErrors ==
    {"ObjectError", "ObjectAttributeError", "ObjectDataError", "ObjectIdError",
     "ObjectTypeError"}

\* C12: the id of a home is the 12 bytes its "id" writes when that is a
\* string of 24 hexadecimal digits, ObjectIdError for any other string,
\* ObjectAttributeError without the key and ObjectTypeError for a value
\* that is no string.
C12_HomeIdFourOutcomes ==
    op = "id" /\ py(root) = "HomeData" =>
        LET field == Field("id")
        IN  IF field = None
            THEN ret = Raise("ObjectAttributeError")
            ELSE IF Kind(field[1]) # "String"
            THEN ret = Raise("ObjectTypeError")
            ELSE IF IsHexString(v(field[1])) /\ Len(v(field[1])) = 24
            THEN ret = Ok(Py("bytes", BytesOf(v(field[1]))))
            ELSE ret = Raise("ObjectIdError")

\* C13: a typed getter returns the stored value when its kind is the kind
\* asked for, raises ObjectAttributeError without the key and
\* ObjectTypeError for a value of any other kind; a Bool is no Int.
C13_GetterAcceptsItsKindOnly ==
    op = "_get_type" =>
        LET field == Field(arg.key)
            asked == Kind(Py(arg.type_, <<>>))
        IN  IF field = None
            THEN ret = Raise("ObjectAttributeError")
            ELSE IF Kind(field[1]) = asked
            THEN ret.err = "" /\ Kind(ret.val) = asked
            ELSE ret = Raise("ObjectTypeError")

RECURSIVE HasForeign(_)
\* The value, or a value nested in it, is of no kind of JSON.
HasForeign(value) ==
    \/ Kind(value) = "Other"
    \/ /\ Kind(value) = "List"
       /\ \E i \in DOMAIN v(value) : HasForeign(v(value)[i])
    \/ /\ Kind(value) = "Map"
       /\ \E i \in DOMAIN v(value) : HasForeign(v(value)[i].value)

RECURSIVE Tree(_, _)
\* A value with what it contains: the items of a list or of a
\* SequenceObject, the pairs of a dict or of a MappingObject.
Tree(h, value) ==
    CASE Kind(value) = "List" ->
            LET items == elements(h, value)
            IN  <<"List", [i \in DOMAIN items |-> Tree(h, items[i])]>>
      [] Kind(value) = "Map" ->
            LET items == elements(h, value)
            IN  <<"Map", [i \in DOMAIN items |->
                            [key |-> items[i].key, value |-> Tree(h, items[i].value)]]>>
      [] OTHER -> value

\* C14: constructing an Object raises ObjectDataError when the document
\* holds a value of no kind of JSON, at any depth, and succeeds otherwise,
\* every value stored with its kind and its content.
C14_ConstructOrDataError ==
    /\ op = "construct" => ret = Raise("ObjectDataError") /\ HasForeign(doc)
    /\ root # PyNone => ~HasForeign(doc) /\ Tree(heap, root) = Tree(heap, doc)

\* C15: HomeData.name and ModuleData.room_id are None when the document
\* has no such key, and raise an ObjectError when it has the key with null.
C15_OptionalFieldMissingIsNone ==
    \A field \in {"name", "room_id"} :
        (op = field /\ (field = "name" => py(root) = "HomeData")) =>
            /\ Field(field) = None => ret = Ok(PyNone)
            /\ Field(field) = Some(PyNone) => ret.err \in ObjectErrors

\* The id of an item of a collection of class cls, read from the document:
\* the bytes its "id" writes in hexadecimal (colons dropped for a module),
\* or its integer "id", True and False being the integers 1 and 0; the
\* error of reading it when it has none.
ItemId(cls, item) ==
    IF Kind(item) # "Map"
    THEN Raise("AttributeError")
    ELSE LET pairs == SelectSeq(v(item), LAMBDA pair : pair.key = "id")
         IN  IF pairs = <<>>
             THEN Raise("ObjectAttributeError")
             ELSE LET value == pairs[1].value
                  IN  IF cls \in {"RoomsData", "Zones"}
                      THEN IF Kind(value) \in {"Int", "Bool"}
                           THEN Ok(Py("int", IF Kind(value) = "Int" THEN v(value)
                                             ELSE IF v(value) THEN 1 ELSE 0))
                           ELSE Raise("ObjectTypeError")
                      ELSE IF Kind(value) # "String"
                      THEN Raise("ObjectTypeError")
                      ELSE LET chars == IF cls = "ModulesData"
                                        THEN SelectSeq(v(value), LAMBDA c : c # ":")
                                        ELSE v(value)
                           IN  IF IsHexString(chars) /\ Len(chars) % 2 = 0
                               THEN Ok(Py("bytes", BytesOf(chars)))
                               ELSE Raise("ObjectIdError")

\* The positions of the items of the document whose id is the one asked
\* for, and of those whose id cannot be read.
Matching == {i \in DOMAIN v(doc) : ItemId(py(root), v(doc)[i]) = Ok(arg.wanted)}

Unreadable == {i \in DOMAIN v(doc) : ItemId(py(root), v(doc)[i]).err # ""}

First(positions) == CHOOSE i \in positions : \A j \in positions : i <= j

\* get_id has returned the item at the position, wrapped in the item class
\* of the collection.
ReturnedItem(i) ==
    /\ ret.err = ""
    /\ py(ret.val) = ItemClass(py(root))
    /\ Tree(heap, ret.val) = Tree(heap, v(doc)[i])

\* C16 as stated: get_id returns the first item whose id is the one asked
\* for, wrapped in the item class, and None when no item has that id.
C16_FirstMatchOrNone ==
    op = "get_id" =>
        IF Matching = {}
        THEN ret = Ok(PyNone)
        ELSE ReturnedItem(First(Matching))

\* C16: get_id reads the ids of the items in order.  It returns the first
\* item whose id is the one asked for when every item before it has an id
\* that can be read, None when every id can be read and none is the one
\* asked for, and it raises the error of the first item whose id cannot be
\* read when no item before that one matches.
C16_FirstMatchUnlessUnreadableBefore ==
    op = "get_id" =>
        IF Matching \cup Unreadable = {}
        THEN ret = Ok(PyNone)
        ELSE LET i == First(Matching \cup Unreadable)
             IN  IF i \in Matching
                 THEN ReturnedItem(i)
                 ELSE ret = Raise(ItemId(py(root), v(doc)[i]).err)

\* Two items have the id asked for, "ab" and "AB"; the first is returned.
C16_Witness ==
    /\ op = "get_id"
    /\ Cardinality(Matching) = 2
    /\ Tree(heap, v(doc)[1]) # Tree(heap, v(doc)[2])
    /\ ReturnedItem(1)

\* bytes.hex(): two digits of HexDigits for each byte.
Hex(bytes) ==
    [i \in 1 .. 2 * Len(bytes) |->
        IF i % 2 = 1
        THEN HexDigits[(bytes[(i + 1) \div 2] \div 16) + 1]
        ELSE HexDigits[(bytes[i \div 2] % 16) + 1]]

\* str.lower() of a string of hexadecimal digits.
Lower(chars) ==
    [i \in DOMAIN chars |->
        HexDigits[CHOOSE k \in DOMAIN HexDigits :
                     HexDigits[k] = chars[i] \/ UpperDigits[k] = chars[i]]]

\* The home's "id" is a string of pairs of hexadecimal digits.
HexIdRead ==
    /\ op = "id"
    /\ py(root) = "HomeData"
    /\ Field("id") # None
    /\ Kind(Field("id")[1]) = "String"
    /\ IsHexString(v(Field("id")[1]))
    /\ Len(v(Field("id")[1])) % 2 = 0

-----------------------------------------------------------------------------
(* Every public operation, on one schedule and on the Objects of a few     *)
(* documents: the calls on the timetable, the generator of get_period and  *)
(* the calls on an Object.                                                 *)

FrameDocs ==
    { Py("dict", <<>>),
      Dict("id", Str(<<"a", "b">>)),
      Dict("name", Py("list", <<Py("int", 1), Dict("x", PyNone)>>)),
      Py("list", <<Dict("id", Str(<<"a", "b">>)), Dict("id", Str(<<"A", "B">>))>>),
      Py("list", <<Dict("id", Py("int", 1)), Py("dict", <<>>)>>) }

InitFrame ==
    /\ InitNetatmo
    /\ timetable = <<[zone_id |-> 2, m_offset |-> SundayAt(150)],
                     [zone_id |-> 1, m_offset |-> 0]>>
    /\ type = "therm"
    /\ timezone = "Vienna"
    /\ zones \in ZonesChoices
    /\ doc \in FrameDocs
    /\ heap = <<>>
    /\ root = PyNone
    /\ op = "none"
    /\ arg = <<>>
    /\ ret = Ok(None)
    /\ gen = NoGen
    /\ gen2 = NoGen

NextFrame ==
    \/ NextNode
    \/ NextPeriod

SpecFrame == InitFrame /\ [][NextFrame]_vars

RECURSIVE Cells(_, _)
\* The addresses of the Objects a value is made of.
Cells(h, value) ==
    IF py(value) \notin SequenceClasses \cup MappingClasses
    THEN {}
    ELSE {v(value)} \cup
         UNION {Cells(h, IF py(value) \in MappingClasses
                         THEN h[v(value)].items[i].value
                         ELSE h[v(value)].items[i]) : i \in DOMAIN h[v(value)].items}

\* A step leaves the schedule, the document and the constructed Object as
\* they are, and the copy it returns is made of Objects of its own.
Framed ==
    /\ schedule' = schedule
    /\ doc' = doc
    /\ root # PyNone =>
          /\ root' = root
          /\ \A a \in Cells(heap, root) : heap'[a] = heap[a]
          /\ Tree(heap', root') = Tree(heap, root)
    /\ op' = "copy" =>
          /\ py(ret'.val) = py(root')
          /\ Tree(heap', ret'.val) = Tree(heap', root')
          /\ Cells(heap', ret'.val) \cap Cells(heap', root') = {}

\* C17: no operation changes an entity: whatever is called, the schedule
\* and every Object constructed keep the content they were constructed
\* with, and a copy is equal to its original and shares no Object with it.
C17_NothingChangesAnEntity == [][Framed]_vars

\* A copy of an Object that holds other Objects has been returned.
C17_Witness ==
    /\ op = "copy"
    /\ Cardinality(Cells(heap, root)) = 3
    /\ Cardinality(Cells(heap, ret.val)) = 3

-----------------------------------------------------------------------------
(* get_period without count_max, over several weeks: from an instant in    *)
(* the first hour of a home week or after the occurrences of its week, to  *)
(* an instant some weeks later.                                            *)

WalkFrom ==
    { Aware(30, "UTC"),                     \* Monday 2022-03-21T00:30Z, 01:30 in Vienna
      Aware(-30, "UTC"),                    \* Sunday 2022-03-20T23:30Z, Monday 00:30 in Vienna
      Aware(AutumnMonday + 30, "UTC"),      \* 2022-10-23T22:30Z, Monday 00:30 in Vienna
      Aware(AutumnMonday + 30, "Vienna") }  \* Monday 2022-10-24 00:30 CEST

WalkTo ==
    { Aware(14 * MinutesPerDay, "Fixed120"),               \* Monday 2022-04-04T02:00+02:00
      Aware(AutumnMonday + 21 * MinutesPerDay, "UTC") }    \* 2022-11-13T22:00Z

WalkCall ==
    \E dt_from \in WalkFrom, dt_to \in WalkTo, home_tz \in BOOLEAN :
        /\ gen.pc = "none"
        /\ op = "none"
        /\ gen' = period_frame(dt_from, dt_to, None, home_tz)
        /\ UNCHANGED <<netatmo, entity, op, arg, ret, gen2>>

NextWalk ==
    \/ WalkCall
    \/ PeriodStart
    \/ PeriodWeek
    \/ PeriodEntry
    \/ PeriodResume
    \/ PeriodWeekEnd
    \/ PeriodDrop

SpecWalk == InitPeriod /\ [][NextWalk]_vars

\* Monday noon of the k-th home week from the week of dt_from on.
HomeWeek(k) ==
    _dt_localize(HomeMonday(gen.dt_from) + k * DaysPerWeek * MinutesPerDay
                     + MinutesPerDay \div 2,
                 timezone)

\* C19: get_period without count_max, once it has returned, has yielded
\* every entry of get_week whose instant lies in [dt_from, dt_to], for the
\* home week of dt_from and for each week after it; those of the following
\* weeks too when dt_from is later than every entry of its own week.
C19_EveryWeekFromTheFirst ==
    (AwareBounds /\ gen.count_max = None /\ gen.pc = "returned") =>
        \A k \in 0..MaxWeeks :
            LET w == get_week(timetable, type, timezone, HomeWeek(k), gen.home_tz)
            IN  w.err = "" =>
                    \A e \in Entries(w.val) :
                        (Instant(gen.dt_from) <= e.instant /\ e.instant <= Instant(gen.dt_to))
                            => e \in Entries(gen.out)

\* C20: each time get_period goes on to the next week, the week it reads
\* is the home week after the one it has read, whatever the time zones of
\* the home and of dt_from: no week is read twice and none is skipped, so
\* no entry is yielded twice.
C20_EachWeekOnce ==
    [][(gen.pc = "week_end" /\ gen'.pc = "week") =>
           HomeMonday(gen'.week) = HomeMonday(gen.week) + DaysPerWeek * MinutesPerDay]_vars

-----------------------------------------------------------------------------
(* The end of a get_period iteration.                                      *)

\* The iteration stopped at an entry of the week that is later than dt_to.
EndedAfterTo ==
    /\ gen.i \in DOMAIN gen.week_timepoints
    /\ Instant(gen.week_timepoints[gen.i].dt) > Instant(gen.dt_to)

\* C21: a get_period iteration with aware bounds that has returned ended
\* at the first entry later than dt_to or once count_max entries were
\* yielded, whichever came first.
C21_EndsAtBoundOrCount ==
    (AwareBounds /\ gen.pc = "returned") =>
        \/ gen.count_max = Some(Len(gen.out))
        \/ /\ EndedAfterTo
           /\ gen.count_max # None => Len(gen.out) < gen.count_max[1]

-----------------------------------------------------------------------------
\* C22: on a non-empty timetable, that of a "therm" or "cooling" schedule
\* with a single timepoint included, get_week at an aware reference
\* returns at least one entry and get_by_datetime at an aware instant
\* returns a timepoint.
C22_WeekNeverEmpty ==
    /\ (GetWeekReturned /\ timetable # <<>>) =>
           ret.err = "" /\ ret.val # <<>>
    /\ (op = "get_by_datetime" /\ arg.dt.tz # "None" /\ timetable # <<>>) =>
           ret.err = "" /\ ret.val # None

-----------------------------------------------------------------------------
(* OAuth2 grants (grant.py).  A grant is its class and its _params, a      *)
(* mapping from parameter names to strings.  An argument of a constructor  *)
(* is None or Some(string).                                                *)

\* BaseGrant.__init__, lines 24-29, on the locals() of a subclass
\* constructor: without self, without the names that begin with "__"
\* (__class__, which a constructor that calls super() holds) and without
\* the None values.
BaseGrant(cls, parameters) ==
    [cls |-> cls,
     _params |-> [key \in {k \in DOMAIN parameters :
                              /\ k # "self"
                              /\ k # "__class__"
                              /\ parameters[k] # None}
                     |-> parameters[key][1]]]

\* Lines 65-74; _set_grant_type adds the name grant_type.
AuthorizationCodeGrant(code, client_id, client_secret, redirect_uri, scope) ==
    [BaseGrant("AuthorizationCodeGrant",
               ("self" :> Some("self")) @@ ("__class__" :> Some("class"))
                   @@ ("code" :> code) @@ ("client_id" :> client_id)
                   @@ ("client_secret" :> client_secret)
                   @@ ("redirect_uri" :> redirect_uri) @@ ("scope" :> scope))
        EXCEPT !._params = ("grant_type" :> "authorization_code") @@ @]

\* Lines 90-99.
ClientCredentialsGrant(username, password, client_id, client_secret, scope) ==
    [BaseGrant("ClientCredentialsGrant",
               ("self" :> Some("self")) @@ ("__class__" :> Some("class"))
                   @@ ("username" :> username) @@ ("password" :> password)
                   @@ ("client_id" :> client_id)
                   @@ ("client_secret" :> client_secret) @@ ("scope" :> scope))
        EXCEPT !._params = ("grant_type" :> "password") @@ @]

\* Lines 113-120.
RefreshTokenGrant(refresh_token, client_id, client_secret) ==
    [BaseGrant("RefreshTokenGrant",
               ("self" :> Some("self")) @@ ("__class__" :> Some("class"))
                   @@ ("refresh_token" :> refresh_token)
                   @@ ("client_id" :> client_id)
                   @@ ("client_secret" :> client_secret))
        EXCEPT !._params = ("grant_type" :> "refresh_token") @@ @]

\* Lines 38-44; self._params[...] raises KeyError for a missing name.
get_refresh_token_grant(grant, refresh_token) ==
    IF {"client_id", "client_secret"} \subseteq DOMAIN grant._params
    THEN Ok(RefreshTokenGrant(Some(refresh_token),
                              Some(grant._params["client_id"]),
                              Some(grant._params["client_secret"])))
    ELSE Raise("KeyError")

-----------------------------------------------------------------------------
(* Netatmo._auth_handler (_netatmo.py), a coroutine run as a task of the   *)
(* event loop.  Its frame is a record: pc is the await it stands at, grant *)
(* and expires_in are its locals, status is resp.status, resp_json the     *)
(* body decoded in this turn of the loop and sent the parameters posted in *)
(* it.  Time is counted in seconds: elapsed is time() - t0, read_at its    *)
(* value when the body was decoded, delay the argument of the sleep the    *)
(* task stands at.  must_cancel is the task's cancellation request and     *)
(* wake the outcome of the awaited future, None while it is pending: the   *)
(* status line of the response, its decoded body (Some(document)), the end *)
(* of a sleep, or an exception.                                            *)
(* CancelledError is a BaseException (Python 3.8 and later).               *)

HTTP_OK == 200

ExpiryMargin == 60

MinSleep == 1

RetryPeriod == 10

\* Lines 106-111: t0 = time(), and the grant's parameters are posted.
handler_request(t) ==
    [t EXCEPT !.pc = "post", !.sent = Some(t.grant._params), !.status = 0,
              !.resp_json = None, !.elapsed = 0, !.read_at = 0, !.delay = 0,
              !.wake = None]

\* Line 127: await sleep(t0 + 10 - time()).
handler_retry(t) ==
    [t EXCEPT !.pc = "sleep_retry", !.delay = RetryPeriod - t.elapsed, !.wake = None]

\* The exception leaves the coroutine.
handler_except_escapes(t) ==
    [pc |-> "raised"]

\* Lines 125-127: the exception is logged and the loop goes on.
handler_except(t) ==
    handler_retry(t)

\* Lines 112-124 once the body is decoded; what is stored in self._token.
handler_json(t, token, ev) ==
    IF ev.kind = "error"
    THEN [task |-> handler_except(t), token |-> token]
    ELSE IF t.status = HTTP_OK
    THEN LET resp_json == ev.body[1]
             u == [t EXCEPT !.resp_json = Some(resp_json), !.read_at = t.elapsed]
         IN  IF "access_token" \notin DOMAIN resp_json
             THEN [task |-> handler_except(u), token |-> token]
             ELSE IF \/ "expires_in" \notin DOMAIN resp_json
                     \/ "refresh_token" \notin DOMAIN resp_json
             THEN [task |-> handler_except(u),
                   token |-> Some(resp_json["access_token"])]
             ELSE LET grant == get_refresh_token_grant(t.grant,
                                                       resp_json["refresh_token"])
                      expires_in == resp_json["expires_in"]
                  IN  IF grant.err # ""
                      THEN [task |-> handler_except(u),
                            token |-> Some(resp_json["access_token"])]
                      ELSE [task |-> [u EXCEPT
                                        !.pc = "sleep_expiry",
                                        !.grant = grant.val,
                                        !.expires_in = expires_in,
                                        !.delay =
                                            IF expires_in - ExpiryMargin - t.elapsed
                                                   >= MinSleep
                                            THEN expires_in - ExpiryMargin - t.elapsed
                                            ELSE MinSleep,
                                        !.wake = None],
                            token |-> Some(resp_json["access_token"])]
    ELSE [task |-> IF "error" \in DOMAIN ev.body[1]
                   THEN handler_retry(t)
                   ELSE handler_except(t),
          token |-> token]

\* The coroutine from the await it stands at to the next one.
handler_step(t, token) ==
    CASE t.pc = "created" ->
             [task |-> handler_request(t), token |-> token]
      [] t.pc = "post" ->
             [task |-> IF t.wake[1].kind = "error"
                       THEN handler_except(t)
                       ELSE [t EXCEPT !.pc = "json", !.status = t.wake[1].status,
                                      !.wake = None],
              token |-> token]
      [] t.pc = "json" ->
             handler_json(t, token, t.wake[1])
      [] t.pc = "sleep_expiry" ->
             [task |-> handler_retry(t), token |-> token]
      [] t.pc = "sleep_retry" ->
             [task |-> handler_request(t), token |-> token]

-----------------------------------------------------------------------------
(* The Netatmo object and the event loop as one record, and the steps of   *)
(* authenticate on it.  A task runs from one await to the next without     *)
(* interruption; the tasks made ready run in the order they were made      *)
(* ready.                                                                  *)

World ==
    [_token |-> _token, _auth_lock |-> _auth_lock, _auth_task |-> _auth_task,
     tasks |-> tasks, ready |-> ready]

\* The task stands at its next await with the frame t: a finished task
\* wakes the callers that await wait((task,)) on it (line 133), and
\* sleep() of a delay that is not positive gives way once and goes on.
suspend(n, tid, t) ==
    LET m == [n EXCEPT !.tasks[tid] = t]
    IN  IF t.pc \in {"cancelled", "raised"}
        THEN [m EXCEPT !.ready =
                  @ \o SelectSeq([k \in 1..MaxCalls |-> Caller(k)],
                                 LAMBDA c : /\ n.tasks[c].pc = "wait"
                                            /\ n.tasks[c].waiting = Some(tid))]
        ELSE IF t.pc \in {"sleep_expiry", "sleep_retry"} /\ t.delay <= 0
        THEN [m EXCEPT !.tasks[tid].wake =
                           Some([kind |-> "timer", status |-> 0, body |-> None]),
                       !.ready = Append(@, tid)]
        ELSE m

\* Task.cancel(), line 132: nothing for a finished task; otherwise the
\* request is recorded and the task is made ready to receive it.
cancel(n, tid) ==
    IF n.tasks[tid].pc \in {"cancelled", "raised"}
    THEN n
    ELSE [n EXCEPT !.tasks[tid].must_cancel = TRUE,
                   !.ready = IF \E i \in DOMAIN n.ready : n.ready[i] = tid
                             THEN @
                             ELSE Append(@, tid)]

\* Line 134, where nothing of the new coroutine has run, and
\* Lock.release() at the end of the async with block, which makes the
\* first waiter ready.
create_task(n, k) ==
    [n EXCEPT !._auth_task = Some(Handler(k)),
              !.tasks[Handler(k)] =
                  [pc |-> "created", grant |-> n.tasks[Caller(k)].grant,
                   sent |-> None, status |-> 0, resp_json |-> None,
                   expires_in |-> 0, elapsed |-> 0, read_at |-> 0, delay |-> 0,
                   must_cancel |-> FALSE, wake |-> None],
              !.tasks[Caller(k)] = [pc |-> "returned"],
              !._auth_lock.locked = FALSE,
              !.ready = IF /\ n._auth_lock.waiters # <<>>
                           /\ \A i \in DOMAIN n.ready :
                                  n.ready[i] # Head(n._auth_lock.waiters)
                        THEN Append(Append(@, Handler(k)), Head(n._auth_lock.waiters))
                        ELSE Append(@, Handler(k))]

\* The previous task cancelled and the new one created at once.
authenticate_no_wait(n, k) ==
    IF n._auth_task # None
    THEN create_task(cancel(n, n._auth_task[1]), k)
    ELSE create_task(n, k)

\* Lines 131-134 with the lock held, up to await wait(...).
authenticate_locked(n, k) ==
    IF n._auth_task # None
    THEN LET tid == n._auth_task[1]
             m == cancel(n, tid)
         IN  [m EXCEPT !.tasks[Caller(k)].pc = "wait",
                       !.tasks[Caller(k)].waiting = Some(tid),
                       !.ready = IF m.tasks[tid].pc \in {"cancelled", "raised"}
                                 THEN Append(@, Caller(k))
                                 ELSE @]
    ELSE create_task(n, k)

\* Line 130, Lock.acquire(): the free lock with no waiter is taken without
\* giving way; otherwise the caller queues.
authenticate(n, k, grant) ==
    LET m == [n EXCEPT !.tasks[Caller(k)] =
                  [pc |-> "acquire", grant |-> grant, waiting |-> None]]
    IN  IF ~n._auth_lock.locked /\ n._auth_lock.waiters = <<>>
        THEN authenticate_locked([m EXCEPT !._auth_lock.locked = TRUE], k)
        ELSE [m EXCEPT !._auth_lock.waiters = Append(@, Caller(k))]

\* The first ready task runs to its next await.  A task whose
\* cancellation is requested receives CancelledError at its await; the
\* except clause of line 125 does not catch it and the task ends
\* cancelled, its frame gone.
run(n) ==
    LET tid == Head(n.ready)
        t == n.tasks[tid]
        m == [n EXCEPT !.ready = Tail(@)]
    IN  IF tid[1] = "_auth_handler"
        THEN IF t.must_cancel
             THEN suspend(m, tid, [pc |-> "cancelled"])
             ELSE LET r == handler_step(t, n._token)
                  IN  suspend([m EXCEPT !._token = r.token], tid, r.task)
        ELSE IF t.pc = "acquire"
        THEN authenticate_locked(
                 [m EXCEPT !._auth_lock =
                      [locked |-> TRUE,
                       waiters |-> SelectSeq(n._auth_lock.waiters,
                                             LAMBDA w : w # tid)]],
                 tid[2])
        ELSE create_task(m, tid[2])

-----------------------------------------------------------------------------
(* The calls, the token endpoint and the clock.                            *)

\* The grants of the calls: a user's credentials for an application of its
\* own, an authorization code for the default application, a refresh token.
Grants ==
    <<ClientCredentialsGrant(Some("user"), Some("password"),
                             Some("app"), Some("secret"), Some("all_scopes")),
      AuthorizationCodeGrant(Some("code"), Some("na_client_android_magellan"),
                             Some("a6e15c52b06364b3251b2c5ae3dd8521"),
                             None, Some("all_scopes")),
      RefreshTokenGrant(Some("r0"), Some("app"), Some("secret"))>>

\* The bodies of a 200 response: a token, or a document that lacks names.
\* expires_in is in seconds: a token that expires before the retry period
\* is over, one that expires within the margin, and one of three hours.
Bodies ==
    {("access_token" :> a) @@ ("expires_in" :> e) @@ ("refresh_token" :> r) :
         a \in {"a1", "a2"}, e \in {5, 12, 10800}, r \in {"r1", "r2"}}
        \cup {"access_token" :> "a1", "error" :> "invalid_grant"}

\* await self.authenticate(grant), the k-th call, made by a task of the
\* application at any point between two steps of the loop.
Call ==
    \E k \in 1..MaxCalls :
        /\ tasks[Caller(k)].pc = "none"
        /\ k > 1 => tasks[Caller(k - 1)].pc # "none"
        /\ LET n == authenticate(World, k, Grants[((k - 1) % Len(Grants)) + 1])
           IN  /\ _token' = n._token
               /\ _auth_lock' = n._auth_lock
               /\ _auth_task' = n._auth_task
               /\ tasks' = n.tasks
               /\ ready' = n.ready
        /\ UNCHANGED <<entity, op, arg, ret, gen, gen2>>

Run ==
    /\ ready # <<>>
    /\ LET n == run(World)
       IN  /\ _token' = n._token
           /\ _auth_lock' = n._auth_lock
           /\ _auth_task' = n._auth_task
           /\ tasks' = n.tasks
           /\ ready' = n.ready
    /\ UNCHANGED <<entity, op, arg, ret, gen, gen2>>

\* The status line of the response arrives after l seconds, or the
\* request fails.
Respond ==
    \E k \in 1..MaxCalls, l \in {0, 12},
       ev \in {[kind |-> "status", status |-> HTTP_OK, body |-> None],
               [kind |-> "status", status |-> 400, body |-> None],
               [kind |-> "error", status |-> 0, body |-> None]} :
        /\ tasks[Handler(k)].pc = "post"
        /\ tasks[Handler(k)].wake = None
        /\ ~tasks[Handler(k)].must_cancel
        /\ tasks' = [tasks EXCEPT ![Handler(k)].wake = Some(ev),
                                  ![Handler(k)].elapsed = @ + l]
        /\ ready' = Append(ready, Handler(k))
        /\ UNCHANGED <<_token, _auth_lock, _auth_task, entity, op, arg, ret, gen, gen2>>

\* resp.json() ends: the body decoded, or an exception.
ReadBody ==
    \E k \in 1..MaxCalls :
        /\ tasks[Handler(k)].pc = "json"
        /\ tasks[Handler(k)].wake = None
        /\ ~tasks[Handler(k)].must_cancel
        /\ \E ev \in {[kind |-> "body", status |-> 0, body |-> Some(b)] :
                          b \in IF tasks[Handler(k)].status = HTTP_OK
                                THEN Bodies
                                ELSE {"error" :> "invalid_grant", "message" :> "busy"}}
                         \cup {[kind |-> "error", status |-> 0, body |-> None]} :
               tasks' = [tasks EXCEPT ![Handler(k)].wake = Some(ev)]
        /\ ready' = Append(ready, Handler(k))
        /\ UNCHANGED <<_token, _auth_lock, _auth_task, entity, op, arg, ret, gen, gen2>>

\* The delay of a sleep is over.
TimerFires ==
    \E k \in 1..MaxCalls :
        /\ tasks[Handler(k)].pc \in {"sleep_expiry", "sleep_retry"}
        /\ tasks[Handler(k)].wake = None
        /\ ~tasks[Handler(k)].must_cancel
        /\ tasks' = [tasks EXCEPT ![Handler(k)].wake =
                                      Some([kind |-> "timer", status |-> 0,
                                            body |-> None]),
                                  ![Handler(k)].elapsed = @ + tasks[Handler(k)].delay]
        /\ ready' = Append(ready, Handler(k))
        /\ UNCHANGED <<_token, _auth_lock, _auth_task, entity, op, arg, ret, gen, gen2>>

InitAuth ==
    /\ InitNetatmo
    /\ timetable = <<>>
    /\ type = "other"
    /\ timezone = "UTC"
    /\ zones = <<>>
    /\ doc = NoDoc
    /\ heap = <<>>
    /\ root = NoDoc
    /\ op = "none"
    /\ arg = <<>>
    /\ ret = Ok(None)
    /\ gen = NoGen
    /\ gen2 = NoGen

NextAuth ==
    \/ Call
    \/ Run
    \/ Respond
    \/ ReadBody
    \/ TimerFires

SpecAuth == InitAuth /\ [][NextAuth]_vars

\* The loop runs the ready tasks, the timers fire, and a request ends with
\* a response or with an exception (the client's timeout at the latest).
SpecAuthLive ==
    /\ SpecAuth
    /\ WF_netatmo(Run)
    /\ WF_netatmo(Respond)
    /\ WF_netatmo(ReadBody)
    /\ WF_netatmo(TimerFires)

-----------------------------------------------------------------------------
(* The claims on the authentication handler.                               *)

HandlerOf(k) == tasks[Handler(k)]

Called(k) == tasks[Caller(k)].pc # "none"

\* The handler goes from the sleep of line 127 to the next request.
NextRequest(k) ==
    /\ HandlerOf(k).pc = "sleep_retry"
    /\ tasks'[Handler(k)].pc = "post"

\* The request of this turn got a 200 response whose body holds the token,
\* its lifetime and the refresh token; any other request has failed.
Succeeded(t) ==
    /\ t.status = HTTP_OK
    /\ t.resp_json # None
    /\ {"access_token", "expires_in", "refresh_token"} \subseteq DOMAIN t.resp_json[1]

\* The parameters of the refresh-token grant of the claim.
RefreshParameters(t) ==
    [grant_type |-> "refresh_token",
     refresh_token |-> t.resp_json[1]["refresh_token"],
     client_id |-> t.sent[1]["client_id"],
     client_secret |-> t.sent[1]["client_secret"]]

\* The handler ends by cancellation only, which a later call requests.
NeverStopsOnItsOwn ==
    \A k \in 1..MaxCalls :
        /\ HandlerOf(k).pc # "raised"
        /\ HandlerOf(k).pc = "cancelled" => (k < MaxCalls /\ Called(k + 1))

\* A handler that is not cancelled issues a request again and again.
RequestsForEver ==
    \A k \in 1..MaxCalls :
        /\ (HandlerOf(k).pc \in {"created", "json", "sleep_expiry", "sleep_retry"})
               ~> (HandlerOf(k).pc \in {"post", "cancelled"})
        /\ (HandlerOf(k).pc = "post") ~> (HandlerOf(k).pc # "post")

\* The next request carries the grant the claim says.
NextGrant(k) ==
    IF Succeeded(HandlerOf(k))
    THEN tasks'[Handler(k)].sent = Some(RefreshParameters(HandlerOf(k)))
    ELSE tasks'[Handler(k)].sent = HandlerOf(k).sent

\* The next request is made before the expiry, counted as the code counts
\* it: expires_in seconds from the start of the request.
AheadOfExpiry(k) ==
    Succeeded(HandlerOf(k)) => HandlerOf(k).elapsed < HandlerOf(k).expires_in

\* C23 as stated: the handler never stops on its own; after a failed
\* request it issues another with the same grant; after a successful one
\* it issues the next request ahead of the token's expiry, with the
\* refresh-token grant built from the returned refresh_token and the
\* previous grant's client_id and client_secret.
C23_RefreshesAheadOfExpiry ==
    /\ []NeverStopsOnItsOwn
    /\ RequestsForEver
    /\ [][\A k \in 1..MaxCalls :
              NextRequest(k) => NextGrant(k) /\ AheadOfExpiry(k)]_vars

LaterOf(a, b) == IF a >= b THEN a ELSE b

\* The moment of the next request after a success, in seconds from the
\* start of the successful one: the latest of 60 seconds before the
\* expiry, one second after the body was read and 10 seconds.
RefreshMoment(k) ==
    Succeeded(HandlerOf(k)) =>
        /\ HandlerOf(k).elapsed =
               LaterOf(LaterOf(HandlerOf(k).expires_in - ExpiryMargin,
                               HandlerOf(k).read_at + MinSleep),
                       RetryPeriod)
        /\ (/\ HandlerOf(k).expires_in > RetryPeriod
            /\ HandlerOf(k).expires_in > HandlerOf(k).read_at + MinSleep)
               <=> HandlerOf(k).elapsed < HandlerOf(k).expires_in

\* C23: the handler never stops on its own; after a failed request it
\* issues another with the same grant; after a successful one it issues
\* the next request with the refresh-token grant built from the returned
\* refresh_token and the previous grant's client_id and client_secret, at
\* the latest of 60 seconds before the expiry, one second after the
\* response was read and 10 seconds after the request began, which is
\* ahead of the expiry exactly when expires_in is more than 10 seconds and
\* more than a second longer than the response took.
C23_RefreshesAtTheLatestOfThree ==
    /\ []NeverStopsOnItsOwn
    /\ RequestsForEver
    /\ [][\A k \in 1..MaxCalls :
              NextRequest(k) => NextGrant(k) /\ RefreshMoment(k)]_vars

\* The handler of the first call, made with the credentials of the
\* application "app", has posted a refresh-token grant of that application
\* after a token of three hours.
C23_Witness ==
    /\ HandlerOf(1).pc = "post"
    /\ HandlerOf(1).expires_in = 10800
    /\ HandlerOf(1).sent[1]["grant_type"] = "refresh_token"
    /\ HandlerOf(1).sent[1]["refresh_token"] = "r2"
    /\ HandlerOf(1).sent[1]["client_id"] = "app"

-----------------------------------------------------------------------------
(* The claims on authenticate.                                             *)

\* The handler tasks that have not finished.
RunningHandlers ==
    {k \in 1..MaxCalls : HandlerOf(k).pc \notin {"none", "cancelled", "raised"}}

\* The authenticate call begun last.
MostRecent ==
    CHOOSE k \in 1..MaxCalls : Called(k) /\ (k < MaxCalls => ~Called(k + 1))

\* The handler runs line 114 in this step.
TokenWrite(k) ==
    /\ HandlerOf(k).pc = "json"
    /\ tasks'[Handler(k)].pc \in {"sleep_expiry", "sleep_retry"}
    /\ tasks'[Handler(k)].resp_json # None
    /\ "access_token" \in DOMAIN tasks'[Handler(k)].resp_json[1]

\* C24: at most one handler task has not finished, whatever the
\* interleaving of the authenticate calls, and the stored token is written
\* by the handler of the authenticate call begun last and by nothing else.
C24_OneHandlerWritesTheToken ==
    /\ [](Cardinality(RunningHandlers) <= 1)
    /\ [][/\ \A k \in 1..MaxCalls :
                 TokenWrite(k) =>
                     /\ k = MostRecent
                     /\ _token' = Some(tasks'[Handler(k)].resp_json[1]["access_token"])
          /\ _token' # _token => \E k \in 1..MaxCalls : TokenWrite(k)]_vars

\* The second call has cancelled the handler of the first, which had
\* stored a token, and waits for it to finish; the third call waits for
\* the lock.
C24_Witness ==
    /\ _token # None
    /\ tasks[Caller(2)].pc = "wait"
    /\ tasks[Caller(3)].pc = "acquire"
    /\ _auth_lock.locked
    /\ HandlerOf(1).pc \notin {"none", "cancelled", "raised"}
    /\ HandlerOf(1).must_cancel

====
